---- MODULE Spec2Model ----
(***************************************************************************)
(* Model of GpioService (src/integrations/gpio/gpio.service.ts): the       *)
(* bridge that opens GPIO pins for the configured binary sensors and       *)
(* switches, forwards edge interrupts into sensor state, and unexports the *)
(* pins on application shutdown.                                           *)
(***************************************************************************)
EXTENDS Integers, Sequences, FiniteSets, TLC

\* ------------------------------------------------------------------ bounds
MaxDecls == 2
MaxEvents == 3

\* Declarations the configuration is drawn from (name, pin).
DeclPool ==
  { [name |-> "front-door", pin |-> 4], [name |-> "lamp", pin |-> 17] }

Levels == {0, 1}

SeqsUpTo(S, n) == UNION { [1..k -> S] : k \in 0..n }

VARIABLES
  binarySensors,  \* config.binarySensors
  switches,       \* config.switches
  gpios,          \* GpioService.gpios: handles in push order
  hw,             \* every Gpio object ever constructed, indexed by handle
  entities,       \* entities held by the entities service, indexed by entity
  phase,          \* "new", "running" (bootstrap returned), "failed" (it threw)
  delivered,      \* per handle: the (err, value) notifications of its poller
  closed,         \* onApplicationShutdown has returned normally at least once
  events,         \* number of runtime events so far
  last            \* what the last handler did

vars ==
  << binarySensors, switches, gpios, hw, entities, phase, delivered, closed,
     events, last >>

NoLast ==
  [ op |-> "none", h |-> 0, e |-> 0, err |-> FALSE, value |-> 0,
    desired |-> FALSE, failAt |-> 0, threw |-> FALSE, ops |-> << >> ]

\* ------------------------------------------------------- collaborators
\* Boolean(value) of the watch callback.
Bool(value) == value # 0

\* One fallible call of a collaborator: it throws when its ordinal is failAt.
Tick(st) == [st EXCEPT !.step = @ + 1]

Fails(st) == st.step + 1 = st.failAt

\* entitiesService.add(entity, customizations)
EntitiesAdd(st, entity) ==
  IF Fails(st)
    THEN [Tick(st) EXCEPT !.threw = TRUE]
    ELSE [Tick(st) EXCEPT !.entities = Append(@, entity)]

\* makeId(seed): deterministic, distinct seeds give distinct ids.
MakeId(seed) ==
  CASE seed = "gpio front-door" -> "gpio-front-door"
    [] seed = "gpio lamp" -> "gpio-lamp"
    [] OTHER -> seed

\* new Gpio(pin, direction, edge)
NewGpio(st, pin, direction, edge) ==
  IF Fails(st)
    THEN [Tick(st) EXCEPT !.threw = TRUE]
    ELSE [Tick(st) EXCEPT
            !.hw = Append(@, [ pin |-> pin, direction |-> direction,
                               edge |-> edge, unexports |-> 0,
                               released |-> FALSE, watcher |-> 0 ]),
            !.ops = Append(@, [ kind |-> "open", h |-> Len(st.hw) + 1,
                                level |-> 0 ])]

\* gpio.watch(callback): the callback closes over the entity it updates.
GpioWatch(st, h, e) ==
  [st EXCEPT !.hw[h].watcher = e,
             !.ops = Append(@, [kind |-> "watch", h |-> h, level |-> 0])]

\* ------------------------------------------------------------ bootstrap
\* Variant: the pin is opened and recorded before the entity is registered.
CreateBinarySensorOpenFirst(st, name, pin) ==
  LET g == NewGpio(st, pin, "in", "both")
      h == Len(g.hw)
  IN IF g.threw THEN g
     ELSE LET a == EntitiesAdd([g EXCEPT !.gpios = Append(@, h)],
                               [ kind |-> "binary_sensor",
                                 id |-> MakeId("gpio " \o name),
                                 name |-> name, state |-> FALSE,
                                 assigned |-> << >>, gpio |-> 0 ])
          IN IF a.threw THEN a ELSE GpioWatch(a, h, Len(a.entities))

\* Variant: the seed is a plain string, the name is not interpolated.
CreateBinarySensorPlainSeed(st, name, pin) ==
  LET a == EntitiesAdd(st, [ kind |-> "binary_sensor",
                             id |-> MakeId("gpio ${name}"), name |-> name,
                             state |-> FALSE, assigned |-> << >>,
                             gpio |-> 0 ])
  IN IF a.threw THEN a
     ELSE LET g == NewGpio(a, pin, "in", "both")
              h == Len(g.hw)
          IN IF g.threw THEN g
             ELSE GpioWatch([g EXCEPT !.gpios = Append(@, h)], h,
                            Len(a.entities))

CreateBinarySensor(st, name, pin) ==
  LET a == EntitiesAdd(st, [ kind |-> "binary_sensor",
                             id |-> MakeId("gpio " \o name), name |-> name,
                             state |-> FALSE, assigned |-> << >>,
                             gpio |-> 0 ])
  IN IF a.threw THEN a
     ELSE LET g == NewGpio(a, pin, "in", "both")
              h == Len(g.hw)
          IN IF g.threw THEN g
             ELSE GpioWatch([g EXCEPT !.gpios = Append(@, h)], h,
                            Len(a.entities))

\* Variant: the handle is recorded only once the entity has been registered.
CreateSwitchPushAfterAdd(st, name, pin) ==
  LET g == NewGpio(st, pin, "out", "none")
      h == Len(g.hw)
      a == EntitiesAdd(g, [ kind |-> "switch",
                            id |-> MakeId("gpio " \o name), name |-> name,
                            state |-> FALSE, assigned |-> << >>,
                            gpio |-> h ])
  IN IF g.threw THEN g
     ELSE IF a.threw THEN a
     ELSE [a EXCEPT !.gpios = Append(@, h)]

\* Variant: the seed of a switch id names the entity kind.
CreateSwitchKindSeed(st, name, pin) ==
  LET g == NewGpio(st, pin, "out", "none")
      h == Len(g.hw)
  IN IF g.threw THEN g
     ELSE EntitiesAdd([g EXCEPT !.gpios = Append(@, h)],
                      [ kind |-> "switch",
                        id |-> MakeId("gpio switch " \o name),
                        name |-> name, state |-> FALSE, assigned |-> << >>,
                        gpio |-> h ])

\* Variant: the switch pin is opened like a sensor pin.
CreateSwitchAsInput(st, name, pin) ==
  LET g == NewGpio(st, pin, "in", "both")
      h == Len(g.hw)
  IN IF g.threw THEN g
     ELSE EntitiesAdd([g EXCEPT !.gpios = Append(@, h)],
                      [ kind |-> "switch", id |-> MakeId("gpio " \o name),
                        name |-> name, state |-> FALSE, assigned |-> << >>,
                        gpio |-> h ])

CreateSwitch(st, name, pin) ==
  LET g == NewGpio(st, pin, "out", "none")
      h == Len(g.hw)
  IN IF g.threw THEN g
     ELSE EntitiesAdd([g EXCEPT !.gpios = Append(@, h)],
                      [ kind |-> "switch", id |-> MakeId("gpio " \o name),
                        name |-> name, state |-> FALSE, assigned |-> << >>,
                        gpio |-> h ])

RECURSIVE ForEachSensor(_, _)
ForEachSensor(st, i) ==
  IF st.threw \/ i > Len(binarySensors) THEN st
  ELSE ForEachSensor(
         CreateBinarySensor(st, binarySensors[i].name, binarySensors[i].pin),
         i + 1)

RECURSIVE ForEachSwitch(_, _)
ForEachSwitch(st, i) ==
  IF st.threw \/ i > Len(switches) THEN st
  ELSE ForEachSwitch(CreateSwitch(st, switches[i].name, switches[i].pin),
                     i + 1)

\* Variant: the switches are created before the sensors.
OnApplicationBootstrapSwitchesFirst(st) ==
  ForEachSensor(ForEachSwitch(st, 1), 1)

\* Variant: a failing sensor declaration is swallowed and the switches are
\* still created.
OnApplicationBootstrapContinue(st) ==
  ForEachSwitch([ForEachSensor(st, 1) EXCEPT !.threw = FALSE], 1)

OnApplicationBootstrap(st) == ForEachSwitch(ForEachSensor(st, 1), 1)

NumSteps == 2 * (Len(binarySensors) + Len(switches))

Bootstrap ==
  /\ phase = "new"
  /\ \E failAt \in 0..NumSteps :
       LET st == OnApplicationBootstrap(
                   [ gpios |-> gpios, hw |-> hw, entities |-> entities,
                     step |-> 0, failAt |-> failAt, threw |-> FALSE,
                     ops |-> << >> ])
       IN /\ gpios' = st.gpios
          /\ hw' = st.hw
          /\ entities' = st.entities
          /\ phase' = IF st.threw THEN "failed" ELSE "running"
          /\ delivered' = [h \in 1..Len(st.hw) |-> << >>]
          /\ last' = [NoLast EXCEPT !.op = "bootstrap", !.failAt = failAt,
                                    !.threw = st.threw, !.ops = st.ops]
  /\ UNCHANGED << binarySensors, switches, closed, events >>

\* ------------------------------------------------------------- running
\* Assignment to entity.state; every assignment is observable by the registry.
SetEntityState(ents, e, v) ==
  [ents EXCEPT ![e].state = v, ![e].assigned = Append(@, v)]

\* Variant: the callback assigns only when the value differs from the state.
WatchCallbackOnChange(ents, e, err, value) ==
  IF err \/ ents[e].state = Bool(value) THEN ents
  ELSE SetEntityState(ents, e, Bool(value))

\* Variant: the callback does not look at err.
WatchCallbackIgnoreErr(ents, e, err, value) ==
  SetEntityState(ents, e, Bool(value))

\* Variant: every callback updates the first sensor.
WatchCallbackShared(ents, e, err, value) ==
  IF err THEN ents ELSE SetEntityState(ents, 1, Bool(value))

\* The callback passed to gpio.watch, invoked with (err, value); e is the
\* binarySensor the closure captured.
WatchCallback(ents, e, err, value) ==
  IF err THEN ents ELSE SetEntityState(ents, e, Bool(value))

\* An interrupt on the pin of handle h: its poller invokes the callback.
Edge ==
  /\ phase # "new"
  /\ events < MaxEvents
  /\ \E h \in 1..Len(hw), err \in BOOLEAN, value \in Levels :
       /\ hw[h].watcher # 0
       /\ entities' = WatchCallback(entities, hw[h].watcher, err, value)
       /\ delivered' = [delivered EXCEPT
                          ![h] = Append(@, [err |-> err, value |-> value])]
       /\ last' = [NoLast EXCEPT !.op = "edge", !.h = h,
                                 !.e = hw[h].watcher, !.err = err,
                                 !.value = value]
  /\ events' = events + 1
  /\ UNCHANGED << binarySensors, switches, gpios, hw, phase, closed >>

\* GpioSwitch state change: write the bound pin, then record the state.
\* ok is the outcome of the write.
SwitchSetState(ents, e, desired, ok) ==
  IF ok THEN SetEntityState(ents, e, desired) ELSE ents

\* gpio.writeSync on handle h succeeds only on a live output handle.
WriteOk(h, ioerr) ==
  /\ ~ioerr
  /\ ~hw[h].released
  /\ hw[h].direction = "out"

SetState ==
  /\ phase # "new"
  /\ events < MaxEvents
  /\ \E e \in 1..Len(entities), desired \in BOOLEAN, ioerr \in BOOLEAN :
       /\ entities[e].kind = "switch"
       /\ LET h == entities[e].gpio
              ok == WriteOk(h, ioerr)
          IN /\ entities' = SwitchSetState(entities, e, desired, ok)
             /\ last' = [NoLast EXCEPT
                           !.op = "setState", !.h = h, !.e = e,
                           !.desired = desired, !.threw = ~ok,
                           !.ops = << [ kind |-> "write", h |-> h,
                                        level |-> IF desired THEN 1 ELSE 0 ]
                                   >>]
  /\ events' = events + 1
  /\ UNCHANGED << binarySensors, switches, gpios, hw, phase, delivered,
                  closed >>

\* ------------------------------------------------------------- shutdown
\* gpio.unexport(): removes the watchers and closes the pin.  When the call
\* throws, whether the watchers were already removed is not determined.
GpioUnexport(st, h) ==
  LET op == [kind |-> "unexport", h |-> h, level |-> 0]
  IN IF Fails(st)
       THEN [Tick(st) EXCEPT
               !.threw = TRUE,
               !.hw[h].unexports = @ + 1,
               !.hw[h].watcher = IF st.cancel THEN 0 ELSE @,
               !.ops = Append(@, op)]
       ELSE [Tick(st) EXCEPT
               !.hw[h].unexports = @ + 1,
               !.hw[h].released = TRUE,
               !.hw[h].watcher = 0,
               !.ops = Append(@, op)]

RECURSIVE ForEachGpio(_, _)
ForEachGpio(st, i) ==
  IF st.threw \/ i > Len(st.gpios) THEN st
  ELSE ForEachGpio(GpioUnexport(st, st.gpios[i]), i + 1)

\* Variant: the iteration starts at the second handle.
OnApplicationShutdownSkipFirst(st) == ForEachGpio(st, 2)

OnApplicationShutdown(st) == ForEachGpio(st, 1)

Shutdown ==
  /\ phase # "new"
  /\ events < MaxEvents
  /\ \E failAt \in 0..Len(gpios), cancel \in BOOLEAN :
       /\ (failAt = 0 => cancel)
       /\ LET st == OnApplicationShutdown(
                      [ gpios |-> gpios, hw |-> hw, step |-> 0,
                        failAt |-> failAt, cancel |-> cancel,
                        threw |-> FALSE, ops |-> << >> ])
          IN /\ gpios' = st.gpios
             /\ hw' = st.hw
             /\ closed' = (closed \/ ~st.threw)
             /\ last' = [NoLast EXCEPT !.op = "shutdown", !.failAt = failAt,
                                       !.threw = st.threw, !.ops = st.ops]
  /\ events' = events + 1
  /\ UNCHANGED << binarySensors, switches, entities, phase, delivered >>

Init ==
  /\ binarySensors \in SeqsUpTo(DeclPool, MaxDecls)
  /\ switches \in SeqsUpTo(DeclPool, MaxDecls - Len(binarySensors))
  /\ gpios = << >>
  /\ hw = << >>
  /\ entities = << >>
  /\ phase = "new"
  /\ delivered = << >>
  /\ closed = FALSE
  /\ events = 0
  /\ last = NoLast

Next == Bootstrap \/ Edge \/ SetState \/ Shutdown

Spec == Init /\ [][Next]_vars

\* ------------------------------------------------------------ hardware
\* Pin numbers still exported by the bridge: those of the handles on which
\* unexport has never been invoked.
ClaimedPins == { hw[h].pin : h \in { k \in 1..Len(hw) : hw[k].unexports = 0 } }

\* ================================================================ claims
NumSensors == Len(binarySensors)

NumSwitches == Len(switches)

Handles == 1..Len(hw)

\* Handles on which the last handler invoked unexport, in call order.
Unexported == [i \in 1..Len(last.ops) |-> last.ops[i].h]

IsInjective(f) == \A i, j \in DOMAIN f : f[i] = f[j] => i = j

Range(f) == { f[i] : i \in DOMAIN f }

\* C1: after a successful bootstrap of N sensors and M switches, one call of
\* shutdown invokes unexport on exactly N+M distinct handles, each exactly
\* once.
C1_ShutdownReleasesEachOnce ==
  (last.op = "shutdown" /\ phase = "running") =>
    /\ Len(Unexported) = NumSensors + NumSwitches
    /\ IsInjective(Unexported)
    /\ Range(Unexported) = Handles

\* C2: when the release of one handle fails during shutdown, shutdown still
\* attempts the release of every other handle of the registry and does not
\* raise the failure to its caller.
C2_ShutdownBestEffort ==
  last.op = "shutdown" =>
    /\ Range(Unexported) = Range(gpios)
    /\ ~last.threw

\* C3: every handle is released at most once, and no write or notification
\* happens on a handle after its release.
C3_ReleasedOnceNeverUsed ==
  /\ \A h \in Handles : hw[h].unexports <= 1
  /\ last.op \in {"setState", "edge"} => ~hw[last.h].released

\* Error-free notifications of handle h, in delivery order.
Valid(h) == SelectSeq(delivered[h], LAMBDA n : ~n.err)

\* C4: the values assigned to a sensor's state are the booleans (level # 0)
\* of the error-free notifications of its pin, in order, one per
\* notification.
C4_UpdatesFollowEdges ==
  \A h \in Handles :
    hw[h].watcher # 0 =>
      entities[hw[h].watcher].assigned =
        [i \in 1..Len(Valid(h)) |-> Valid(h)[i].value # 0]

C4_Witness ==
  \E h \in Handles :
    /\ hw[h].watcher # 0
    /\ Len(Valid(h)) = 3
    /\ Valid(h)[1].value = 1
    /\ Valid(h)[2].value = 1
    /\ Valid(h)[3].value = 0
    /\ Len(entities[hw[h].watcher].assigned) = 3

\* C5: a notification carrying an error changes no entity and leaves the
\* watcher in place; the next error-free notification on that pin is applied.
C5_ReadErrorIsSkipped ==
  [][ /\ (last'.op = "edge" /\ last'.err) =>
           /\ entities' = entities
           /\ hw'[last'.h].watcher = hw[last'.h].watcher
           /\ hw'[last'.h].watcher # 0
      /\ (last.op = "edge" /\ last.err /\ last'.op = "edge" /\ ~last'.err
          /\ last'.h = last.h) =>
           /\ entities'[last'.e].state = (last'.value # 0)
           /\ Len(entities'[last'.e].assigned) =
                Len(entities[last'.e].assigned) + 1 ]_vars

C5_Witness ==
  \E h \in Handles :
    /\ Len(delivered[h]) = 3
    /\ delivered[h][1] = [err |-> FALSE, value |-> 1]
    /\ delivered[h][2] = [err |-> TRUE, value |-> 0]
    /\ delivered[h][3] = [err |-> FALSE, value |-> 0]
    /\ last.op = "edge"
    /\ last.h = h
    /\ entities[last.e].assigned = << TRUE, FALSE >>

\* Kind of the k-th fallible step of bootstrap in declaration order: a sensor
\* registers and then opens, a switch opens and then registers.
StepKind(k) ==
  IF k <= 2 * NumSensors
    THEN (IF k % 2 = 1 THEN "add" ELSE "open")
    ELSE (IF (k - 2 * NumSensors) % 2 = 1 THEN "open" ELSE "add")

StepsBefore(k, kind) == Cardinality({ i \in 1..(k - 1) : StepKind(i) = kind })

\* C6: when step k of bootstrap fails, bootstrap throws, exactly the pins and
\* entities of the steps before k exist, and every pin opened is still open.
C6_BootstrapAbortsAtFailure ==
  (last.op = "bootstrap" /\ last.failAt > 0) =>
    /\ last.threw
    /\ phase = "failed"
    /\ Len(hw) = StepsBefore(last.failAt, "open")
    /\ Len(entities) = StepsBefore(last.failAt, "add")
    /\ \A h \in Handles : hw[h].unexports = 0 /\ ~hw[h].released
    /\ \A i \in DOMAIN last.ops : last.ops[i].kind # "unexport"

C6_Witness ==
  /\ last.op = "bootstrap"
  /\ last.threw
  /\ last.failAt = 3
  /\ Len(hw) = 1
  /\ Len(entities) = 1
  /\ NumSensors = 1
  /\ NumSwitches = 1

\* C7: every handle ever opened is in the registry exactly once, and the
\* registry holds nothing but opened handles.
C7_RegistryHoldsEveryHandle ==
  /\ \A h \in Handles : Cardinality({ i \in DOMAIN gpios : gpios[i] = h }) = 1
  /\ Range(gpios) \subseteq Handles

C7_Witness ==
  /\ phase = "failed"
  /\ \E h \in Handles : hw[h].direction = "in"
  /\ \E h \in Handles :
       /\ hw[h].direction = "out"
       /\ \A e \in DOMAIN entities : entities[e].gpio # h

\* C8: setState(desired) on a switch performs exactly one write of
\* (desired ? 1 : 0) on the output handle opened for that switch; the state
\* becomes desired when the write succeeds and keeps its value when it fails,
\* which it does on a released handle.
C8_SetStateWritesBoundPin ==
  [][ last'.op = "setState" =>
        LET e == last'.e
            h == last'.h
        IN /\ entities[e].kind = "switch"
           /\ e > NumSensors
           /\ hw[h].direction = "out"
           /\ hw[h].pin = switches[e - NumSensors].pin
           /\ last'.ops = << [ kind |-> "write", h |-> h,
                               level |-> IF last'.desired THEN 1 ELSE 0 ] >>
           /\ (hw[h].released => last'.threw)
           /\ entities'[e].state =
                (IF last'.threw THEN entities[e].state ELSE last'.desired)
           /\ \A o \in DOMAIN entities : o # e => entities'[o] = entities[o]
    ]_vars

C8_Witness ==
  /\ last.op = "setState"
  /\ last.threw
  /\ ~last.desired
  /\ hw[last.h].released
  /\ entities[last.e].state = TRUE

\* C9: a notification on one pin changes at most the sensor bound to that
\* pin and no watcher; a sensor changes only by a notification of its own
\* pin.
C9_WatchersAreIndependent ==
  [][ /\ last'.op = "edge" =>
           /\ \A e \in DOMAIN entities :
                e # hw[last'.h].watcher => entities'[e] = entities[e]
           /\ hw' = hw
      /\ \A e \in DOMAIN entities :
           (entities[e].kind = "binary_sensor" /\ entities'[e] # entities[e])
             => (last'.op = "edge" /\ ~last'.err /\ hw[last'.h].watcher = e)
    ]_vars

C9_Witness ==
  /\ last.op = "edge"
  /\ ~last.err
  /\ \E h \in Handles :
       /\ h # last.h
       /\ hw[h].watcher # 0
       /\ hw[h].watcher # last.e
       /\ Len(delivered[h]) = 2
       /\ ~delivered[h][1].err
       /\ delivered[h][2].err
       /\ entities[hw[h].watcher].state # entities[last.e].state

\* C10: a sensor whose handle has been released is never updated again, no
\* sensor is updated after shutdown has returned, and a watcher ends only in
\* a shutdown that unexports its handle.
C10_ReleaseCancelsWatcher ==
  [][ /\ \A h \in Handles :
           (hw[h].direction = "in" /\ hw[h].released)
             => entities'[h] = entities[h]
      /\ closed =>
           \A e \in DOMAIN entities :
             entities[e].kind = "binary_sensor" => entities'[e] = entities[e]
      /\ \A h \in Handles :
           (hw[h].watcher # 0 /\ hw'[h].watcher = 0) =>
             /\ last'.op = "shutdown"
             /\ \E i \in DOMAIN last'.ops : last'.ops[i].h = h
    ]_vars

C10_Witness ==
  /\ closed
  /\ last.op = "shutdown"
  /\ \E h \in Handles :
       /\ hw[h].direction = "in"
       /\ hw[h].released
       /\ hw[h].watcher = 0
       /\ Len(Valid(h)) > 0
       /\ entities[h].state = TRUE

\* C11: after a shutdown that follows a bootstrap, every pin number the
\* bridge had opened is unclaimed again.
C11_PinsFreeAfterShutdown ==
  last.op = "shutdown" => ClaimedPins = {}

\* Declaration an entity was created from: sensors are registered first.
DeclOf(e) ==
  IF e <= NumSensors THEN binarySensors[e] ELSE switches[e - NumSensors]

\* C12: two declarations of one bootstrap run whose names differ are
\* registered with different ids, each id being makeId("gpio " + name).
C12_DistinctNamesDistinctIds ==
  /\ \A e \in DOMAIN entities :
       entities[e].id = MakeId("gpio " \o DeclOf(e).name)
  /\ \A e1, e2 \in DOMAIN entities :
       DeclOf(e1).name # DeclOf(e2).name => entities[e1].id # entities[e2].id

C12_Witness ==
  /\ phase = "running"
  /\ NumSensors = 2
  /\ Len(entities) = 2
  /\ binarySensors[1].name # binarySensors[2].name
  /\ entities[1].id # entities[2].id

\* C13: a bootstrap that returns has opened every sensor pin as an input
\* watching both edges and every switch pin as an output, has registered one
\* entity per declaration, and the registry holds the N+M handles in the
\* order of the sensor declarations followed by the switch declarations.
C13_BootstrapOpensInOrder ==
  phase = "running" =>
    /\ Len(gpios) = NumSensors + NumSwitches
    /\ Len(hw) = NumSensors + NumSwitches
    /\ Len(entities) = NumSensors + NumSwitches
    /\ IsInjective(gpios)
    /\ \A i \in 1..NumSensors :
         /\ hw[gpios[i]].pin = binarySensors[i].pin
         /\ hw[gpios[i]].direction = "in"
         /\ hw[gpios[i]].edge = "both"
         /\ entities[i].kind = "binary_sensor"
         /\ entities[i].name = binarySensors[i].name
    /\ \A j \in 1..NumSwitches :
         /\ hw[gpios[NumSensors + j]].pin = switches[j].pin
         /\ hw[gpios[NumSensors + j]].direction = "out"
         /\ entities[NumSensors + j].kind = "switch"
         /\ entities[NumSensors + j].name = switches[j].name
         /\ entities[NumSensors + j].gpio = gpios[NumSensors + j]

C13_Witness ==
  /\ last.op = "bootstrap"
  /\ phase = "running"
  /\ binarySensors = << [name |-> "front-door", pin |-> 4] >>
  /\ switches = << [name |-> "lamp", pin |-> 17] >>
  /\ Len(gpios) = 2
  /\ entities[1].id = "gpio-front-door"
  /\ entities[2].id = "gpio-lamp"

IsPrefix(s, t) == Len(s) <= Len(t) /\ SubSeq(t, 1, Len(s)) = s

\* C14: the registry is changed only by bootstrap, which appends to it, and
\* by shutdown, which empties it; notifications and setState requests leave
\* it unchanged.
C14_RegistryAppendedThenDrained ==
  [][ /\ gpios' # gpios => last'.op \in {"bootstrap", "shutdown"}
      /\ last'.op = "bootstrap" => IsPrefix(gpios, gpios')
      /\ last'.op = "shutdown" => gpios' = << >>
      /\ last'.op \in {"edge", "setState"} => gpios' = gpios
    ]_vars

\* C15: a shutdown after a bootstrap that failed partway invokes unexport on
\* exactly the handles opened before the failing step, each once, and leaves
\* no pin claimed.
C15_ShutdownAfterFailedBootstrap ==
  (last.op = "shutdown" /\ phase = "failed") =>
    /\ IsInjective(Unexported)
    /\ Range(Unexported) = Handles
    /\ ClaimedPins = {}

\* C16: a sensor is registered before its pin is opened, so a failed open
\* leaves a registered sensor with no handle and no watcher; a switch pin is
\* opened and recorded before the switch is registered, so a failed
\* registration leaves an open, recorded output handle bound to no entity.
C16_StepOrderByKind ==
  (last.op = "bootstrap" /\ last.threw) =>
    LET k == last.failAt
        e == Len(entities)
        h == Len(hw)
    IN /\ (k <= 2 * NumSensors /\ StepKind(k) = "open") =>
            /\ e = h + 1
            /\ Len(gpios) = h
            /\ entities[e].kind = "binary_sensor"
            /\ entities[e].name = binarySensors[k \div 2].name
            /\ \A g \in Handles : hw[g].watcher # e
       /\ (k > 2 * NumSensors /\ StepKind(k) = "add") =>
            /\ h = e + 1
            /\ gpios[Len(gpios)] = h
            /\ hw[h].direction = "out"
            /\ hw[h].pin = switches[(k - 2 * NumSensors) \div 2].pin
            /\ ~hw[h].released
            /\ \A o \in DOMAIN entities : entities[o].gpio # h

C16_Witness ==
  /\ last.op = "bootstrap"
  /\ last.threw
  /\ last.failAt = 4
  /\ NumSensors = 2
  /\ Len(entities) = 2
  /\ Len(hw) = 1
  /\ entities[2].kind = "binary_sensor"
  /\ hw[1].watcher = 1

\* C17: declarations with the same name are registered with the same id
\* whatever their kind, and a bootstrap in which no collaborator throws
\* returns normally with every declaration registered, colliding or not.
C17_IdIgnoresKind ==
  /\ \A e1, e2 \in DOMAIN entities :
       DeclOf(e1).name = DeclOf(e2).name => entities[e1].id = entities[e2].id
  /\ (last.op = "bootstrap" /\ last.failAt = 0) =>
       /\ ~last.threw
       /\ Len(entities) = NumSensors + NumSwitches

C17_Witness ==
  /\ phase = "running"
  /\ NumSensors = 1
  /\ NumSwitches = 1
  /\ binarySensors[1].name = switches[1].name
  /\ entities[1].kind = "binary_sensor"
  /\ entities[2].kind = "switch"
  /\ entities[1].id = entities[2].id
====
